---- MODULE Spec2Model ----
(***************************************************************************)
(* Model of src/app.py: the Flask image server.                            *)
(*                                                                         *)
(*   POST /images      images()  stores an uploaded file under             *)
(*                               images/<secure_filename>                  *)
(*   GET  /images/<id> image()   serves images/<id>, or a transformed      *)
(*                               copy kept in cached/<md5>.jpg             *)
(*                                                                         *)
(* The two directories are maps from file name to file content.  A file   *)
(* that has been opened for writing and not yet written is present and    *)
(* empty.  Each request is a process; one step of a process is one access *)
(* to the file system together with the local computation before it.      *)
(***************************************************************************)
EXTENDS Integers, Sequences, FiniteSets, TLC

(***************************************************************************)
(* Bounds of the model.                                                    *)
(***************************************************************************)
MaxReq == 2          \* image() requests in one run
MaxUploads == 1      \* POST /images requests in one run
MaxParams == 2       \* query parameters of a request of SpecKey
MaxSide == 4         \* SpecPipe: largest width, height, w and h

(***************************************************************************)
(* Strings.  A file name is a sequence of tokens: "." or a run of other    *)
(* characters.  A parameter value is a sequence of characters.             *)
(***************************************************************************)
NameA == <<"a", ".", "jpg">>             \* a.jpg
NameDD == <<"a", ".", ".", "jpg">>       \* a..jpg
NameTxt == <<"a", ".", "txt">>           \* a.txt

V2 == <<"2">>
V02 == <<"0", "2">>
V3 == <<"3">>
V0 == <<"0">>
VAbc == <<"a", "b", "c">>
VH == <<"h">>
VV == <<"v">>
VHV == <<"h", "v">>
VX == <<"x">>
VSquare == <<"s", "q", "u", "a", "r", "e">>

Digits == <<"0", "1", "2", "3", "4", "5", "6", "7", "8", "9">>

IsDigit(c) == \E i \in 1..Len(Digits) : Digits[i] = c

DigitVal(c) == (CHOOSE i \in 1..Len(Digits) : Digits[i] = c) - 1

RECURSIVE DigitsVal(_)
DigitsVal(s) ==
    IF s = <<>> THEN 0
    ELSE 10 * DigitsVal(SubSeq(s, 1, Len(s) - 1)) + DigitVal(s[Len(s)])

\* int(s): an optional sign and at least one decimal digit, else ValueError.
ParseInt(s) ==
    LET signed == Len(s) > 0 /\ s[1] \in {"-", "+"}
        body == IF signed THEN Tail(s) ELSE s
    IN  IF Len(body) > 0 /\ \A i \in 1..Len(body) : IsDigit(body[i])
        THEN [ok |-> TRUE,
              val |-> IF signed /\ s[1] = "-" THEN 0 - DigitsVal(body)
                      ELSE DigitsVal(body)]
        ELSE [ok |-> FALSE, val |-> 0]

\* int(x) of a true division x = a / b with b > 0: truncation toward zero.
TruncDiv(a, b) == IF a >= 0 THEN a \div b ELSE 0 - ((0 - a) \div b)

(***************************************************************************)
(* request.args: the query string as the sequence of its <<name, value>>   *)
(* pairs, in the order the client wrote them.                              *)
(***************************************************************************)
ArgNames(q) == {q[i][1] : i \in 1..Len(q)}

\* request.args[k]: the first value given for k.
ArgFirst(q, k) == q[CHOOSE i \in 1..Len(q) :
                        q[i][1] = k /\ \A j \in 1..(i - 1) : q[j][1] # k][2]

\* bool(request.args.get(k)): k is given and its first value is not ''.
ArgTruthy(q, k) == k \in ArgNames(q) /\ ArgFirst(q, k) # <<>>

\* request.args.get(k) == v
ArgIs(q, k, v) == k \in ArgNames(q) /\ ArgFirst(q, k) = v

\* The parameter names of the model, in the order sorted() gives them.
ParamOrder == <<"flip", "format", "h", "rot", "w", "x">>

\* json.dumps(request.args): as JsonDumps, without sort_keys.
JsonDumpsUnsorted(q) ==
    LET firsts == SelectSeq([i \in 1..Len(q) |-> i],
                            LAMBDA i : \A j \in 1..(i - 1) : q[j][1] # q[i][1])
    IN  [i \in 1..Len(firsts) |-> q[firsts[i]]]

\* json.dumps(list(request.args), ...): the names without their values.
JsonDumpsNamesOnly(q) ==
    LET names == SelectSeq(ParamOrder, LAMBDA n : n \in ArgNames(q))
    IN  [i \in 1..Len(names) |-> <<names[i], <<>>>>]

\* json.dumps(request.args, sort_keys=True): each name once, with its first
\* value, the names sorted.
JsonDumps(q) ==
    LET names == SelectSeq(ParamOrder, LAMBDA n : n \in ArgNames(q))
    IN  [i \in 1..Len(names) |-> <<names[i], ArgFirst(q, names[i])>>]

\* identity: md5 of "<image>-<json>" in hex.  The digest is taken to be
\* injective, so it is represented by the text it is computed from.
CacheKey(image, q) == <<image, JsonDumps(q)>>

\* ".." in image
HasDotDot(image) ==
    \E i \in 1..(Len(image) - 1) : image[i] = "." /\ image[i + 1] = "."

(***************************************************************************)
(* File contents and images.  A source file holds a raster (kind "img"),   *)
(* or nothing yet (kind "empty").                                          *)
(* A decoded image carries its mode, its size, the identity px of the      *)
(* pixels it was decoded from and the operations applied to it since.      *)
(***************************************************************************)
File(kind, mode, size, px, ops) ==
    [kind |-> kind, mode |-> mode, size |-> size, px |-> px, ops |-> ops]

Empty == File("empty", "", <<0, 0>>, 0, <<>>)
NoFile == File("none", "", <<0, 0>>, 0, <<>>)
ImgA == File("img", "RGB", <<4, 2>>, 1, <<>>)
ImgB == File("img", "RGB", <<2, 3>>, 2, <<>>)
ImgRGBA == File("img", "RGBA", <<2, 2>>, 3, <<>>)

\* The modes JpegImagePlugin can write (RGBA and P are not among them).
JpegModes == {"1", "L", "RGB", "RGBX", "CMYK", "YCbCr"}

Ok(img) == [err |-> "", img |-> img]
Fail(kind) == [err |-> kind, img |-> NoFile]

\* No outcome yet.
Pending == Fail("Pending")

\* Image.open(path)
ImageOpen(content) ==
    IF content.kind = "img" THEN Ok(content) ELSE Fail("DecodeError")

\* image.resize((new_width, new_height))
ImageResize(img, nw, nh) ==
    IF nw < 1 \/ nh < 1 THEN Fail("InvalidGeometry")
    ELSE Ok([img EXCEPT !.size = <<nw, nh>>,
                        !.ops = Append(@, <<"resize", nw, nh>>)])

\* Altering image size.
StageResize(img, q) ==
    LET h == ParseInt(IF ArgTruthy(q, "h") THEN ArgFirst(q, "h") ELSE <<>>)
        w == ParseInt(IF ArgTruthy(q, "w") THEN ArgFirst(q, "w") ELSE <<>>)
        ow == img.size[1]
        oh == img.size[2]
    IN  IF ArgTruthy(q, "h") /\ ArgTruthy(q, "w") THEN
            IF h.ok /\ w.ok THEN ImageResize(img, w.val, h.val)
            ELSE Fail("InvalidParameter")
        ELSE IF ArgTruthy(q, "h") THEN
            IF h.ok THEN ImageResize(img, TruncDiv(h.val * ow, oh), h.val)
            ELSE Fail("InvalidParameter")
        ELSE IF ArgTruthy(q, "w") THEN
            IF w.ok THEN ImageResize(img, w.val, TruncDiv(w.val * oh, ow))
            ELSE Fail("InvalidParameter")
        ELSE Ok(img)

\* image.crop((left, top, right, bottom))
ImageCrop(img, left, top, right, bottom) ==
    [img EXCEPT !.size = <<right - left, bottom - top>>,
                !.ops = Append(@, <<"crop", left, top, right, bottom>>)]

\* The crop with the far edge of the box one pixel further out.
StageCropOffByOne(img, q) ==
    LET width == img.size[1]
        height == img.size[2]
    IN  IF ArgIs(q, "format", VSquare) THEN
            IF width > height THEN
                Ok(ImageCrop(img, (width - height) \div 2, 0,
                             (width + height) \div 2 + 1, height))
            ELSE IF width < height THEN
                Ok(ImageCrop(img, 0, (height - width) \div 2,
                             width, (height + width) \div 2 + 1))
            ELSE Ok(img)
        ELSE Ok(img)

\* Croping image.  int(center - half) and int(center + half) with
\* center = long / 2 and half = short / 2, long > short > 0.
StageCrop(img, q) ==
    LET width == img.size[1]
        height == img.size[2]
    IN  IF ArgIs(q, "format", VSquare) THEN
            IF width > height THEN
                Ok(ImageCrop(img, (width - height) \div 2, 0,
                             (width + height) \div 2, height))
            ELSE IF width < height THEN
                Ok(ImageCrop(img, 0, (height - width) \div 2,
                             width, (height + width) \div 2))
            ELSE Ok(img)
        ELSE Ok(img)

\* Rotating image.  rotate() keeps the size of the canvas.
StageRotate(img, q) ==
    LET angle == ParseInt(IF ArgTruthy(q, "rot") THEN ArgFirst(q, "rot")
                          ELSE <<>>)
    IN  IF ArgTruthy(q, "rot") THEN
            IF angle.ok
            THEN Ok([img EXCEPT !.ops = Append(@, <<"rotate", angle.val>>)])
            ELSE Fail("InvalidParameter")
        ELSE Ok(img)

\* Flipping image.
StageFlip(img, q) ==
    IF ArgIs(q, "flip", VH) THEN
        Ok([img EXCEPT !.ops = Append(@, <<"mirror">>)])
    ELSE IF ArgIs(q, "flip", VV) THEN
        Ok([img EXCEPT !.ops = Append(@, <<"flip">>)])
    ELSE IF ArgIs(q, "flip", VHV) THEN
        Ok([img EXCEPT !.ops = Append(Append(@, <<"flip">>), <<"mirror">>)])
    ELSE Ok(img)

\* The pipeline with the first two stages exchanged.
PipelineCropFirst(content, q) ==
    LET opened == ImageOpen(content)
        cropped == IF opened.err = "" THEN StageCrop(opened.img, q)
                   ELSE opened
        resized == IF cropped.err = "" THEN StageResize(cropped.img, q)
                   ELSE cropped
        rotated == IF resized.err = "" THEN StageRotate(resized.img, q)
                   ELSE resized
    IN  IF rotated.err = "" THEN StageFlip(rotated.img, q) ELSE rotated

\* Lines 106-161: open the source, then resize, crop, rotate, flip; the
\* first stage that raises ends the request.
Pipeline(content, q) ==
    LET opened == ImageOpen(content)
        resized == IF opened.err = "" THEN StageResize(opened.img, q)
                   ELSE opened
        cropped == IF resized.err = "" THEN StageCrop(resized.img, q)
                   ELSE resized
        rotated == IF cropped.err = "" THEN StageRotate(cropped.img, q)
                   ELSE cropped
    IN  IF rotated.err = "" THEN StageFlip(rotated.img, q) ELSE rotated

\* What image.save(target_path, "JPEG", ...) writes for an image it can
\* encode.
Encode(img) == [img EXCEPT !.kind = "jpeg"]

CanEncode(img) == img.mode \in JpegModes

(***************************************************************************)
(* Uploads: allowed_file and secure_filename.                              *)
(***************************************************************************)
ALLOWED_EXTENSIONS == {"png", "jpg", "jpeg", "gif"}

\* str.lower() on the extensions of the model.
Lower(t) == IF t = "JPG" THEN "jpg" ELSE IF t = "PNG" THEN "png" ELSE t

\* '.' in filename and filename.rsplit('.', 1)[1].lower() in ALLOWED_EXTENSIONS
allowed_file(filename) ==
    /\ \E i \in 1..Len(filename) : filename[i] = "."
    /\ filename[Len(filename)] # "."
    /\ Lower(filename[Len(filename)]) \in ALLOWED_EXTENSIONS

\* secure_filename: of the names of the model it changes only those with
\* dots at either end, which it strips.
RECURSIVE secure_filename(_)
secure_filename(filename) ==
    IF filename = <<>> THEN filename
    ELSE IF Head(filename) = "." THEN secure_filename(Tail(filename))
    ELSE IF filename[Len(filename)] = "."
         THEN secure_filename(SubSeq(filename, 1, Len(filename) - 1))
    ELSE filename

(***************************************************************************)
(* Inputs.                                                                 *)
(***************************************************************************)
Req == 1..MaxReq

ReqIds == {NameA, NameDD}

Queries ==
    { <<>>,
      << <<"w", V2>> >>,
      << <<"rot", VAbc>> >>,
      << <<"flip", VX>> >>,
      << <<"w", V0>> >> }

\* The requests of Spec: every query for a.jpg; for a..jpg, which the
\* assertion refuses whatever the query, one without and one with parameters.
ReqInputs ==
    ({NameA} \X Queries) \cup ({NameDD} \X {<<>>, << <<"w", V2>> >>})

UploadNames == {NameA, NameTxt}

Payloads == {ImgA, ImgB, ImgRGBA}

(***************************************************************************)
(* State.                                                                  *)
(***************************************************************************)
VARIABLES
    images,     \* the directory images/: file name -> content
    cached,     \* the directory cached/: cache key -> content
    pc,         \* per request: where it is in image()
    rid,        \* per request: the <image> of the URL
    rargs,      \* per request: request.args
    rimg,       \* per request: the local variable image, once transformed
    created,    \* per request: save() created target_path (it was absent)
    detached,   \* per request: the file save() has open was removed since
    resp,       \* per request: the bytes of the response
    err,        \* per request: the exception that ended it
    fsOps,      \* per request: file system operations performed so far
    ran,        \* per request: the transform pipeline was entered
    wrote,      \* per request: it has opened target_path for writing
    puts,       \* per cache key: writes of an artifact that completed
    upc,        \* the upload in progress: "idle" or "writing"
    uname,      \* its file name, once secured
    udata,      \* its payload
    nUploads,   \* uploads started so far
    kin,        \* SpecKey: the input <<image, query 1, query 2>>
    kout,       \* SpecKey: the two keys derived, or <<>>
    pin,        \* SpecPipe: the input <<size of the source, query>>
    pout        \* SpecPipe: the outcome of the pipeline, or Pending

reqVars ==
    <<pc, rid, rargs, rimg, created, detached, resp, err, fsOps, ran, wrote>>
upVars == <<upc, uname, udata, nUploads>>
keyVars == <<kin, kout, pin, pout>>
vars == <<images, cached, puts, reqVars, upVars, keyVars>>

isfile(dir, name) == name \in DOMAIN dir

\* The directory with the file written (created if absent).
WriteFile(dir, name, content) ==
    [n \in DOMAIN dir \cup {name} |-> IF n = name THEN content ELSE dir[n]]

\* os.remove
RemoveFile(dir, name) == [n \in DOMAIN dir \ {name} |-> dir[n]]

Key(r) == CacheKey(rid[r], rargs[r])

\* Lines 20-26: the server starts on the directory images/ as earlier runs
\* left it, empty or not; no request is in progress.
Init ==
    /\ images \in {<<>>, [n \in {NameA} |-> ImgA]}
    /\ cached = <<>>
    /\ pc = [r \in Req |-> "idle"]
    /\ rid = [r \in Req |-> <<>>]
    /\ rargs = [r \in Req |-> <<>>]
    /\ rimg = [r \in Req |-> NoFile]
    /\ created = [r \in Req |-> FALSE]
    /\ detached = [r \in Req |-> FALSE]
    /\ resp = [r \in Req |-> NoFile]
    /\ err = [r \in Req |-> ""]
    /\ fsOps = [r \in Req |-> 0]
    /\ ran = [r \in Req |-> FALSE]
    /\ wrote = [r \in Req |-> FALSE]
    /\ puts = <<>>
    /\ upc = "idle"
    /\ uname = <<>>
    /\ udata = NoFile
    /\ nUploads = 0
    /\ kin = <<>>
    /\ kout = <<>>
    /\ pin = <<>>
    /\ pout = Pending

(***************************************************************************)
(* image(): GET /images/<image>.                                           *)
(***************************************************************************)
Raise(r, kind) ==
    /\ pc' = [pc EXCEPT ![r] = "error"]
    /\ err' = [err EXCEPT ![r] = kind]

Goto(r, label) ==
    /\ pc' = [pc EXCEPT ![r] = label]
    /\ err' = err

Touch(r) == fsOps' = [fsOps EXCEPT ![r] = @ + 1]

\* The assertion left out, as under python -O.
RejectsNothing(image) == FALSE

\* assert ".." not in image
RejectsReference(image) == HasDotDot(image)

\* The branch of line 90 never taken.
ServesOriginalNever(q) == FALSE

\* not request.args
ServesOriginal(q) == q = <<>>

\* The test of line 103 always finding no file.
CacheHitNever(r) == FALSE

\* os.path.isfile(target_path)
CacheHit(r) == isfile(cached, Key(r))

\* Lines 81-100: the assertion, the existence check of the source, the
\* choice between the original and a transformed copy, the cache key.
Begin(r, image, q) ==
    /\ pc[r] = "idle"
    /\ \A o \in Req : o < r => pc[o] # "idle"   \* requests are numbered as they arrive
    /\ rid' = [rid EXCEPT ![r] = image]
    /\ rargs' = [rargs EXCEPT ![r] = q]
    /\ IF RejectsReference(image) THEN
           /\ Raise(r, "InvalidReference")
           /\ fsOps' = fsOps
       ELSE IF ~isfile(images, image) THEN
           /\ Raise(r, "NotFound")
           /\ Touch(r)
       ELSE IF ServesOriginal(q) THEN
           /\ Goto(r, "original")
           /\ Touch(r)
       ELSE
           /\ Goto(r, "lookup")
           /\ Touch(r)
    /\ UNCHANGED <<images, cached, puts, rimg, created, detached,
                   resp, ran, wrote, upVars, keyVars>>

\* Line 93: send_file(path).
ServeOriginal(r) ==
    /\ pc[r] = "original"
    /\ resp' = [resp EXCEPT ![r] = images[rid[r]]]
    /\ Goto(r, "done")
    /\ Touch(r)
    /\ UNCHANGED <<images, cached, puts, rid, rargs, rimg, created,
                   detached, ran, wrote, upVars, keyVars>>

\* Line 103: if not os.path.isfile(target_path).
Lookup(r) ==
    /\ pc[r] = "lookup"
    /\ IF CacheHit(r) THEN Goto(r, "serve") ELSE Goto(r, "open")
    /\ Touch(r)
    /\ UNCHANGED <<images, cached, puts, rid, rargs, rimg, created,
                   detached, resp, ran, wrote, upVars, keyVars>>

\* Lines 106-161: Image.open(path) and the four stages.
Transform(r) ==
    /\ pc[r] = "open"
    /\ ran' = [ran EXCEPT ![r] = TRUE]
    /\ LET res == Pipeline(images[rid[r]], rargs[r])
       IN  IF res.err = "" THEN
               /\ rimg' = [rimg EXCEPT ![r] = res.img]
               /\ Goto(r, "save")
           ELSE
               /\ rimg' = rimg
               /\ Raise(r, res.err)
    /\ Touch(r)
    /\ UNCHANGED <<images, cached, puts, rid, rargs, created,
                   detached, resp, wrote, upVars, keyVars>>

\* Line 175, first half: image.save opens target_path with "w+b", which
\* creates it or empties it.
SaveOpen(r) ==
    /\ pc[r] = "save"
    /\ created' = [created EXCEPT ![r] = ~isfile(cached, Key(r))]
    /\ detached' = [detached EXCEPT ![r] = FALSE]
    /\ cached' = WriteFile(cached, Key(r), Empty)
    /\ Goto(r, "write")
    /\ Touch(r)
    /\ wrote' = [wrote EXCEPT ![r] = TRUE]
    /\ UNCHANGED <<images, puts, rid, rargs, rimg, resp, ran,
                   upVars, keyVars>>

\* The cache directory after save() has written the artifact through the
\* file it opened: a file removed since is not brought back.
Stored(r) ==
    IF detached[r] THEN cached ELSE WriteFile(cached, Key(r), Encode(rimg[r]))

\* The requests whose open file a removal of key k leaves without a name.
Orphaned(k) == {o \in Req : pc[o] = "write" /\ Key(o) = k}

\* Line 175, second half: the JPEG encoder writes the artifact, or refuses
\* the image's mode.  save() then closes the file; a Pillow that cleans up
\* after a failed save also removes the file if it had created it, an
\* older one leaves it as it is.
SaveWrite(r) ==
    /\ pc[r] = "write"
    /\ IF CanEncode(rimg[r]) THEN
           /\ cached' = Stored(r)
           /\ puts' = IF detached[r] THEN puts
                      ELSE WriteFile(puts, Key(r),
                                     IF Key(r) \in DOMAIN puts
                                     THEN puts[Key(r)] + 1 ELSE 1)
           /\ detached' = detached
           /\ Goto(r, "serve")
       ELSE
           /\ puts' = puts
           /\ \E removes \in BOOLEAN :
                  IF removes /\ created[r] /\ isfile(cached, Key(r)) THEN
                      /\ cached' = RemoveFile(cached, Key(r))
                      /\ detached' = [o \in Req |->
                                         detached[o] \/ o \in Orphaned(Key(r))]
                  ELSE
                      /\ cached' = cached
                      /\ detached' = detached
           /\ Raise(r, "EncodeError")
    /\ Touch(r)
    /\ UNCHANGED <<images, rid, rargs, rimg, created, resp, ran, wrote,
                   upVars, keyVars>>

\* Line 191: send_file(target_path).
Serve(r) ==
    /\ pc[r] = "serve"
    /\ IF isfile(cached, Key(r)) THEN
           /\ resp' = [resp EXCEPT ![r] = cached[Key(r)]]
           /\ Goto(r, "done")
       ELSE
           /\ resp' = resp
           /\ Raise(r, "IOFailure")
    /\ Touch(r)
    /\ UNCHANGED <<images, cached, puts, rid, rargs, rimg, created,
                   detached, ran, wrote, upVars, keyVars>>

(***************************************************************************)
(* images(): POST /images.                                                 *)
(***************************************************************************)
\* Lines 57-64 up to the opening of the destination by file.save(path).
UploadBegin(filename, data) ==
    /\ upc = "idle"
    /\ nUploads < MaxUploads
    /\ nUploads' = nUploads + 1
    /\ IF allowed_file(filename) THEN
           /\ uname' = secure_filename(filename)
           /\ udata' = data
           /\ images' = WriteFile(images, secure_filename(filename), Empty)
           /\ upc' = "writing"
       ELSE
           UNCHANGED <<uname, udata, images, upc>>
    /\ UNCHANGED <<cached, puts, reqVars, keyVars>>

\* Line 64: file.save(path) copies the upload into the destination.
UploadFinish ==
    /\ upc = "writing"
    /\ images' = WriteFile(images, uname, udata)
    /\ upc' = "idle"
    /\ UNCHANGED <<cached, puts, reqVars, uname, udata, nUploads,
                   keyVars>>

Next ==
    \/ \E r \in Req, in \in ReqInputs : Begin(r, in[1], in[2])
    \/ \E r \in Req : ServeOriginal(r)
    \/ \E r \in Req : Lookup(r)
    \/ \E r \in Req : Transform(r)
    \/ \E r \in Req : SaveOpen(r)
    \/ \E r \in Req : SaveWrite(r)
    \/ \E r \in Req : Serve(r)
    \/ \E filename \in UploadNames, data \in Payloads :
           UploadBegin(filename, data)
    \/ UploadFinish

Spec == Init /\ [][Next]_vars

(***************************************************************************)
(* SpecKey: the derivation of the cache key alone (lines 96-100), applied  *)
(* to one image and two queries drawn from every sequence of at most       *)
(* MaxParams parameters.                                                   *)
(***************************************************************************)
KeyPairs ==
    { <<"w", V2>>, <<"w", V02>>, <<"h", V3>>, <<"rot", V0>>, <<"x", V2>> }

RECURSIVE SeqsUpTo(_, _)
SeqsUpTo(S, n) ==
    IF n = 0 THEN {<<>>}
    ELSE LET shorter == SeqsUpTo(S, n - 1)
         IN  shorter \cup {Append(q, p) : q \in shorter, p \in S}

KeyQueries == SeqsUpTo(KeyPairs, MaxParams)

KeyInit ==
    /\ images = <<>>
    /\ cached = <<>>
    /\ puts = <<>>
    /\ pc = [r \in Req |-> "idle"]
    /\ rid = [r \in Req |-> <<>>]
    /\ rargs = [r \in Req |-> <<>>]
    /\ rimg = [r \in Req |-> NoFile]
    /\ created = [r \in Req |-> FALSE]
    /\ detached = [r \in Req |-> FALSE]
    /\ resp = [r \in Req |-> NoFile]
    /\ err = [r \in Req |-> ""]
    /\ fsOps = [r \in Req |-> 0]
    /\ ran = [r \in Req |-> FALSE]
    /\ wrote = [r \in Req |-> FALSE]
    /\ upc = "idle"
    /\ uname = <<>>
    /\ udata = NoFile
    /\ nUploads = 0
    /\ kin \in ReqIds \X KeyQueries \X KeyQueries
    /\ kout = <<>>
    /\ pin = <<>>
    /\ pout = Pending

Derive ==
    /\ kin # <<>>
    /\ kout = <<>>
    /\ kout' = <<CacheKey(kin[1], kin[2]), CacheKey(kin[1], kin[3])>>
    /\ UNCHANGED <<images, cached, puts, reqVars, upVars, kin, pin, pout>>

KeyNext == Derive

SpecKey == KeyInit /\ [][KeyNext]_vars

(***************************************************************************)
(* SpecPipe: the transform pipeline alone (lines 106-161), applied to one  *)
(* RGB source of every size up to MaxSide x MaxSide and one query made of  *)
(* any of flip, format, h, rot and w, in that order or in the reverse one. *)
(***************************************************************************)
V90 == <<"9", "0">>

\* str(n) for one digit: the text of a size as it comes in the URL.
Str(n) == <<Digits[n + 1]>>

SideValues == {Str(n) : n \in 0..MaxSide}

\* The parameter absent, or present once with one of the values.
Opt(name, values) == {<<>>} \cup {<< <<name, v>> >> : v \in values}

Reverse(q) == [i \in 1..Len(q) |-> q[Len(q) + 1 - i]]

PipeQueries ==
    LET inOrder ==
            {f \o fm \o h \o r \o w :
                f \in Opt("flip", {VH, VV, VHV, VX}),
                fm \in Opt("format", {VSquare}),
                h \in Opt("h", SideValues),
                r \in Opt("rot", {V90, VAbc}),
                w \in Opt("w", SideValues)}
    IN  inOrder \cup {Reverse(q) : q \in inOrder}

PipeSizes == (1..MaxSide) \X (1..MaxSide)

PipeSource(size) == File("img", "RGB", size, 1, <<>>)

PipeInit ==
    /\ images = <<>>
    /\ cached = <<>>
    /\ puts = <<>>
    /\ pc = [r \in Req |-> "idle"]
    /\ rid = [r \in Req |-> <<>>]
    /\ rargs = [r \in Req |-> <<>>]
    /\ rimg = [r \in Req |-> NoFile]
    /\ created = [r \in Req |-> FALSE]
    /\ detached = [r \in Req |-> FALSE]
    /\ resp = [r \in Req |-> NoFile]
    /\ err = [r \in Req |-> ""]
    /\ fsOps = [r \in Req |-> 0]
    /\ ran = [r \in Req |-> FALSE]
    /\ wrote = [r \in Req |-> FALSE]
    /\ upc = "idle"
    /\ uname = <<>>
    /\ udata = NoFile
    /\ nUploads = 0
    /\ kin = <<>>
    /\ kout = <<>>
    /\ pin \in PipeSizes \X PipeQueries
    /\ pout = Pending

ApplyPipeline ==
    /\ pin # <<>>
    /\ pout = Pending
    /\ pout' = Pipeline(PipeSource(pin[1]), pin[2])
    /\ UNCHANGED <<images, cached, puts, reqVars, upVars, kin, kout, pin>>

PipeNext == ApplyPipeline

SpecPipe == PipeInit /\ [][PipeNext]_vars

(***************************************************************************)
(* Properties.                                                             *)
(***************************************************************************)
Started(r) == pc[r] # "idle"

\* Request r takes a step of image().
Steps(r) == pc'[r] # pc[r]

\* A complete artifact: what a save that ran to its end has written.
IsArtifact(content) == content.kind = "jpeg"

C2_AtMostOneWrite == \A k \in DOMAIN puts : puts[k] <= 1

\* C3: a request that found the file under its key and served it without
\* writing it returns a complete artifact.
C3_NoPartialRead ==
    \A r \in Req :
        (pc[r] = "done" /\ rargs[r] # <<>> /\ ~wrote[r]) => IsArtifact(resp[r])

\* C4: the bytes of a complete artifact never change: the file stays and
\* keeps its content.
C4_ArtifactImmutable ==
    [][\A k \in DOMAIN cached :
          IsArtifact(cached[k]) => (isfile(cached', k) /\ cached'[k] = cached[k])]_vars

\* C5: a request without query parameters for a source that exists is
\* answered with the bytes stored as the source, never derives a key nor
\* looks into cached/ nor runs the pipeline, and leaves cached/ unchanged.
C5_EmptyBypass ==
    [][\A r \in Req :
          /\ (pc[r] = "idle" /\ Steps(r) /\ rargs'[r] = <<>>
                /\ isfile(images, rid'[r]) /\ ~HasDotDot(rid'[r])) =>
                 pc'[r] = "original" /\ cached' = cached
          /\ (Started(r) /\ rargs[r] = <<>> /\ Steps(r)) =>
                 /\ pc[r] = "original" /\ pc'[r] = "done"
                 /\ resp'[r] = images[rid[r]]
                 /\ ~ran'[r] /\ ~wrote'[r] /\ fsOps'[r] = 2
                 /\ cached' = cached /\ puts' = puts]_vars

\* A request without parameters has returned the source while cached/ held
\* an artifact of that source.
C5_Witness ==
    \E r \in Req :
        /\ pc[r] = "done" /\ rargs[r] = <<>>
        /\ resp[r].kind = "img" /\ resp[r] = images[rid[r]]
        /\ \E k \in DOMAIN cached : k[1] = rid[r] /\ IsArtifact(cached[k])

\* C6: a request whose identifier contains ".." ends in an error before it
\* has performed any file system operation.
C6_TraversalRejectedFirst ==
    \A r \in Req :
        (Started(r) /\ HasDotDot(rid[r])) =>
            pc[r] = "error" /\ err[r] = "InvalidReference" /\ fsOps[r] = 0

\* A request for a..jpg with parameters was refused while cached/ was not
\* empty.
C6_Witness ==
    \E r \in Req :
        /\ pc[r] = "error" /\ HasDotDot(rid[r]) /\ rargs[r] # <<>>
        /\ fsOps[r] = 0
        /\ DOMAIN cached # {}

(***************************************************************************)
(* The parameters as lines 108-161 read them, with the defaults of a       *)
(* request that leaves one out: no width, no height, no crop, rotation by  *)
(* 0, no flip.                                                             *)
(***************************************************************************)
IntParam(q, k) ==
    IF ArgTruthy(q, k)
    THEN [given |-> TRUE, ok |-> ParseInt(ArgFirst(q, k)).ok,
          val |-> ParseInt(ArgFirst(q, k)).val]
    ELSE [given |-> FALSE, ok |-> TRUE, val |-> 0]

Normalize(q) ==
    [w |-> IntParam(q, "w"),
     h |-> IntParam(q, "h"),
     square |-> ArgIs(q, "format", VSquare),
     rot |-> [IntParam(q, "rot") EXCEPT !.given = TRUE],
     flip |-> IF ArgIs(q, "flip", VH) THEN "h"
              ELSE IF ArgIs(q, "flip", VV) THEN "v"
              ELSE IF ArgIs(q, "flip", VHV) THEN "hv"
              ELSE "none"]

\* w, h or rot is given and is no integer, or flip is given and is none of
\* h, v, hv.
Malformed(q) ==
    \/ \E k \in {"w", "h", "rot"} :
           k \in ArgNames(q) /\ ~ParseInt(ArgFirst(q, k)).ok
    \/ "flip" \in ArgNames(q) /\ ArgFirst(q, "flip") \notin {VH, VV, VHV}

\* request.args as a dict: each name with its first value.
RawDict(q) == [n \in ArgNames(q) |-> ArgFirst(q, n)]

\* No name is given twice.
NoRepeat(q) == \A i, j \in 1..Len(q) : q[i][1] = q[j][1] => i = j

\* q1 and q2 present the same parameters, in any order.
SameParams(q1, q2) ==
    /\ NoRepeat(q1) /\ NoRepeat(q2)
    /\ {q1[i] : i \in 1..Len(q1)} = {q2[i] : i \in 1..Len(q2)}

\* C7: two queries that present the same parameters in different orders get
\* the same cache key for the same identifier.
C7_OrderInvariantKey ==
    (kout # <<>> /\ SameParams(kin[2], kin[3])) => kout[1] = kout[2]

\* The keys of h=3&w=2 and w=2&h=3 have been derived.
C7_Witness ==
    /\ kout # <<>>
    /\ Len(kin[2]) = 2 /\ kin[2] # kin[3] /\ SameParams(kin[2], kin[3])
    /\ kout[1] = kout[2]

C9_MalformedRejected ==
    \A r \in Req :
        (Started(r) /\ Malformed(rargs[r])) =>
            /\ pc[r] # "done"
            /\ ~wrote[r]
            /\ (pc[r] = "error" /\ ran[r] /\ err[r] # "DecodeError") =>
                   err[r] = "InvalidParameter"

\* C10: a request that ends in an error leaves nothing behind in cached/:
\* every file there was opened for writing by a request that has not failed.
C10_ErrorLeavesCache ==
    \A k \in DOMAIN cached :
        \E r \in Req : wrote[r] /\ Key(r) = k /\ pc[r] # "error"

\* C11: the bytes of a source image that exists never change: the file
\* stays and keeps its content.
C11_SourceImmutable ==
    [][\A n \in DOMAIN images :
          images[n].kind = "img" =>
              (isfile(images', n) /\ images'[n] = images[n])]_vars

\* The pipeline of SpecPipe has run and raised nothing.
Piped == pout # Pending /\ pout.err = ""

\* The operations applied, in order, and their names.
PipeOps == pout.img.ops

HasOp(tag) == \E i \in 1..Len(PipeOps) : PipeOps[i][1] = tag

OpOf(tag) == PipeOps[CHOOSE i \in 1..Len(PipeOps) : PipeOps[i][1] = tag]

\* The place of an operation in the order resize, crop, rotate, flip,
\* mirror.
Rank(tag) ==
    CASE tag = "resize" -> 1
      [] tag = "crop" -> 2
      [] tag = "rotate" -> 3
      [] tag = "flip" -> 4
      [] tag = "mirror" -> 5

\* The size of the image the crop stage receives: the target of the resize
\* if there was one, else the size of the source.
PreCropSize ==
    IF HasOp("resize") THEN <<OpOf("resize")[2], OpOf("resize")[3]>>
    ELSE pin[1]

\* C12: the stages of a pipeline that ran to its end were applied in the
\* order resize, crop, rotate, flip (hv: flip then mirror), each at most
\* once; every stage the query enables was applied; the crop was taken from
\* the resized image; the same query in the reverse order gives the same
\* result.
C12_StageOrder ==
    Piped =>
        LET q == pin[2]
        IN  /\ \A i, j \in 1..Len(PipeOps) :
                   i < j => Rank(PipeOps[i][1]) < Rank(PipeOps[j][1])
            /\ HasOp("resize") <=> (ArgTruthy(q, "h") \/ ArgTruthy(q, "w"))
            /\ HasOp("crop") <=>
                   (ArgIs(q, "format", VSquare)
                        /\ PreCropSize[1] # PreCropSize[2])
            /\ HasOp("crop") =>
                   /\ OpOf("crop")[4] <= PreCropSize[1]
                   /\ OpOf("crop")[5] <= PreCropSize[2]
            /\ HasOp("rotate") <=> ArgTruthy(q, "rot")
            /\ HasOp("flip") <=>
                   (ArgIs(q, "flip", VV) \/ ArgIs(q, "flip", VHV))
            /\ HasOp("mirror") <=>
                   (ArgIs(q, "flip", VH) \/ ArgIs(q, "flip", VHV))
            /\ Pipeline(PipeSource(pin[1]), Reverse(q)) = pout

\* All four stages ran, the flip in both directions, on a query given in
\* reverse alphabetical order.
C12_Witness ==
    /\ Piped
    /\ Len(PipeOps) = 5
    /\ pin[2][1][1] = "w"

\* round(a / b) for a >= 0 and b > 0: the nearest integer, the even one of
\* two equally near.
RoundDiv(a, b) ==
    LET lower == a \div b
        twice == 2 * (a % b)
    IN  IF twice < b THEN lower
        ELSE IF twice > b THEN lower + 1
        ELSE IF lower % 2 = 0 THEN lower ELSE lower + 1

\* The value of a size parameter that is present and a positive integer,
\* else 0.
Positive(q, k) ==
    IF ArgTruthy(q, k) /\ ParseInt(ArgFirst(q, k)).ok
           /\ ParseInt(ArgFirst(q, k)).val >= 1
    THEN ParseInt(ArgFirst(q, k)).val
    ELSE 0

\* C13: with a positive h and no w the image is resized to
\* (round(h * original_width / original_height), h), with a positive w and
\* no h to (w, round(w * original_height / original_width)), with both to
\* (w, h), whenever that target has positive sides.
C13_RoundedResize ==
    LET q == pin[2]
        ow == pin[1][1]
        oh == pin[1][2]
        h == Positive(q, "h")
        w == Positive(q, "w")
        target ==
            IF ArgTruthy(q, "h") /\ ArgTruthy(q, "w") THEN <<w, h>>
            ELSE IF ArgTruthy(q, "h") THEN <<RoundDiv(h * ow, oh), h>>
            ELSE <<w, RoundDiv(w * oh, ow)>>
    IN  (/\ pout # Pending
         /\ pout.err # "InvalidParameter"
         /\ ArgTruthy(q, "h") => h >= 1
         /\ ArgTruthy(q, "w") => w >= 1
         /\ ArgTruthy(q, "h") \/ ArgTruthy(q, "w")
         /\ target[1] >= 1
         /\ target[2] >= 1)
        => (Piped /\ OpOf("resize") = <<"resize", target[1], target[2]>>)

Min(a, b) == IF a < b THEN a ELSE b

Apart(a, b) == IF a < b THEN b - a ELSE a - b

\* C14: with format=square an image wider than high is cropped to the box
\* (left, 0, right, height) with 0 <= left, right <= width and
\* right - left = height, an image higher than wide to the box
\* (0, top, width, bottom) with 0 <= top, bottom <= height and
\* bottom - top = width, and a square image is not cropped; the result is
\* a square of side min(width, height) and the two margins removed differ
\* by at most one pixel.
C14_SquareCrop ==
    (Piped /\ ArgIs(pin[2], "format", VSquare)) =>
        LET width == PreCropSize[1]
            height == PreCropSize[2]
            side == Min(width, height)
            box == OpOf("crop")
        IN  /\ pout.img.size = <<side, side>>
            /\ width = height <=> ~HasOp("crop")
            /\ width > height =>
                   /\ box[3] = 0 /\ box[5] = height
                   /\ 0 <= box[2] /\ box[4] <= width
                   /\ box[4] - box[2] = height
                   /\ Apart(box[2], width - box[4]) <= 1
            /\ height > width =>
                   /\ box[2] = 0 /\ box[4] = width
                   /\ 0 <= box[3] /\ box[5] <= height
                   /\ box[5] - box[3] = width
                   /\ Apart(box[3], height - box[5]) <= 1

\* A crop of an image whose sides differ by an odd number of pixels: the
\* margins removed are unequal.
C14_Witness ==
    /\ Piped
    /\ HasOp("crop")
    /\ PreCropSize[1] > PreCropSize[2]
    /\ (PreCropSize[1] - PreCropSize[2]) % 2 = 1
    /\ OpOf("crop")[2] # PreCropSize[1] - OpOf("crop")[4]

\* C15: a request with malformed parameters ends in InvalidParameter before
\* anything else is done: it never looks for the source or for a cached
\* file, so the error is the same whether or not the source exists.
C15_NormalizeFirst ==
    \A r \in Req :
        (Started(r) /\ Malformed(rargs[r])) =>
            /\ pc[r] = "error"
            /\ err[r] = "InvalidParameter"
            /\ fsOps[r] = 0

\* The requests identical to request r, and those of them that missed the
\* cache and so ran the pipeline or are about to.
Same(r) == {o \in Req : Started(o) /\ rid[o] = rid[r] /\ rargs[o] = rargs[r]}

Racers(r) == {o \in Same(r) : ran[o] \/ pc[o] \in {"open", "save", "write"}}

\* The outcome of the pipeline for request r on the source as it is stored.
Expected(r) == Pipeline(images[rid[r]], rargs[r])

\* The requests racing with r on its key have all ended, every one having
\* transformed the source as it is stored now, on which the pipeline gives
\* an image.
Settled(r) ==
    /\ ran[r]
    /\ upc = "idle"
    /\ isfile(images, rid[r])
    /\ Expected(r).err = ""
    /\ \A o \in Racers(r) :
           pc[o] \in {"done", "error"} /\ rimg[o] = Expected(r).img

\* C16: once the identical requests that raced on a key have all ended,
\* the source being unchanged, the file under the key is the encoded output
\* of the pipeline for the source and the parameters, and an identical
\* request that looks up the cache from then on finds that file and returns
\* exactly its bytes.
C16_RaceSafe ==
    [][\A r \in Req :
          /\ Settled(r)' =>
                 /\ isfile(cached', Key(r)')
                 /\ cached'[Key(r)'] = Encode(Expected(r)'.img)
          /\ Settled(r) =>
                 \A o \in Same(r) :
                     /\ (pc[o] = "lookup" /\ Steps(o)) => pc'[o] = "serve"
                     /\ (pc[o] = "serve" /\ Steps(o)) =>
                            /\ pc'[o] = "done"
                            /\ resp'[o] = Encode(Expected(r).img)]_vars

\* C17: whenever no upload is being written, a complete artifact stored
\* under the key of a request is the encoded output of the pipeline for the
\* bytes now stored as the source of that request.
C17_CacheCoherent ==
    \A r \in Req :
        (/\ Started(r)
         /\ upc = "idle"
         /\ isfile(cached, Key(r))
         /\ IsArtifact(cached[Key(r)]))
        => (/\ isfile(images, rid[r])
            /\ Expected(r).err = ""
            /\ cached[Key(r)] = Encode(Expected(r).img))

====
